---- MODULE Spec2Model ----
(***************************************************************************)
(* Rate-limited request core of the PubMed MCP server:                     *)
(*   RateLimiter  (src/src/utils/rate_limiter.py)   token bucket + lock    *)
(*   RetryHandler (src/src/utils/rate_limiter.py)   backoff schedule       *)
(*   BaseClient._request (src/src/clients/base.py)  retry loop             *)
(*   map_http_status_to_error (src/src/utils/error_handler.py)             *)
(*   SessionManager (src/src/clients/session_manager.py)  History pipeline *)
(*   build_search_pipeline (src/src/tools/advanced_tools.py)               *)
(*                                                                         *)
(* Time is counted in ticks; one window of the limiter is TicksPerWindow   *)
(* ticks.  Token amounts are scaled by Unit == TicksPerWindow, so that the *)
(* refill "elapsed * (max_requests / window)" is elapsed * max_requests    *)
(* scaled tokens and every amount is an integer.  Durations handed to      *)
(* asyncio.sleep are rationals <<num, den>> in windows (seconds, for the   *)
(* window=1.0 limiter of BaseClient); a sleep resumes at any tick at or    *)
(* after its duration has elapsed.                                         *)
(***************************************************************************)
EXTENDS Integers, Sequences, FiniteSets, TLC

\* ---------------------------------------------------------------- bounds
MaxCapacity == 2
TicksPerWindow == 2
MaxTime == 6
MaxAcquires == 4
NCallers == 2
MaxRetries == 2
MaxAttempt == 10
MaxSteps == 3

\* ------------------------------------------------------------- constants
Unit == TicksPerWindow
Callers == 1..NCallers
NoCaller == 0
Requester == NCallers + 1
Capacities == 1..MaxCapacity

VARIABLES
    now,            \* time.monotonic(), in ticks
    max_requests,   \* RateLimiter.max_requests
    tokens,         \* RateLimiter.tokens, scaled by Unit
    last_update,    \* RateLimiter.last_update
    lockHolder,     \* RateLimiter._lock: the caller holding it, or NoCaller
    waiters,        \* RateLimiter._lock: FIFO queue of callers waiting for it
    pc,             \* position of every caller
    sleep,          \* per caller: the asyncio.sleep it is suspended in
    traced,         \* history: whether completed acquire() calls are recorded
    hist,           \* history: one record per completed acquire(), while traced
    refillSnap,     \* history: the last refill: tokens before and after, max_requests
    retry_handler,  \* BaseClient.retry_handler: max_retries, base_delay, backoff_factor, max_delay
    retry_on_rate_limit,  \* _request's parameter
    attempt,        \* _request: the loop variable
    lastResp,       \* _request: outcome of the latest HTTP call
    result,         \* _request: what it returned or raised
    httpCalls,      \* history: HTTP calls issued by _request
    acqCalls,       \* history: rate_limiter.acquire() calls made by _request
    acqDone,        \* history: rate_limiter.acquire() calls that returned to _request
    waits,          \* history: the retry waits _request has completed
    allServerErr,   \* history: every response so far had a status >= 500
    web_env,        \* SessionManager.web_env
    steps,          \* SessionManager.steps
    step_counter,   \* SessionManager._step_counter
    lastOp,         \* history: the latest SessionManager operation and its outcome
    lastSupplied,   \* history: the handle of the latest search result carrying one
    afterReset,     \* history: reset() was called and no start_session succeeded since
    tool,           \* build_search_pipeline: its position and locals
    pending         \* per task: the SessionManager call suspended at its client call

limiterVars == <<now, max_requests, tokens, last_update, lockHolder, waiters,
                 pc, sleep, traced, hist, refillSnap>>

limiterVars_nopc == <<now, max_requests, tokens, last_update, lockHolder, waiters,
                      sleep, traced, hist, refillSnap>>

requestVars == <<retry_handler, retry_on_rate_limit, attempt, lastResp, result,
                 httpCalls, acqCalls, acqDone, waits, allServerErr>>

sessionVars == <<web_env, steps, step_counter, lastOp, lastSupplied, afterReset>>

\* everything but the SessionManager
otherVars == <<limiterVars, requestVars>>

\* the tasks that call the SessionManager
taskVars == <<tool, pending>>

vars == <<limiterVars, requestVars, sessionVars, taskVars>>

Min(a, b) == IF a <= b THEN a ELSE b

NoSleep == [start |-> 0, num |-> 0, den |-> 1]

\* asyncio.sleep(num/den windows) begun at `start` may resume at time t
SleepOver(s, t) == (t - s.start) * s.den >= s.num * TicksPerWindow

\* ------------------------------------------------------------ RateLimiter

\* min(max_requests, tokens + elapsed * (max_requests / window))
Refill_noClamp(tok, lu, mx, t) == tok + (t - lu) * mx
Refill(tok, lu, mx, t) == Min(mx * Unit, tok + (t - lu) * mx)

\* (1 - tokens) * (window / max_requests), as <<num, den>> windows
wait_time(tok, mx) == [num |-> Unit - tok, den |-> Unit * mx]

\* the amount left in the bucket when the suspended branch resumes
AfterSleepTokens == 0

\* available_tokens property
available_tokens == Refill(tokens, last_update, max_requests, now)

\* asyncio.Lock.acquire() takes the lock without suspending
LockFree_ignored == TRUE
LockFree == lockHolder = NoCaller /\ waiters = <<>>

\* where a caller continues once acquire() has returned
AfterAcquire(c) == IF c = Requester THEN "acquired" ELSE "idle"

\* where a caller stands when it calls acquire()
CallSite(c) == IF c = Requester THEN "loop" ELSE "idle"

\* acquire() returns to caller c: release the lock, record the call
Return_keepsLock(c, startedAt, w) ==
    /\ UNCHANGED lockHolder
    /\ pc' = [pc EXCEPT ![c] = AfterAcquire(c)]
    /\ sleep' = [sleep EXCEPT ![c] = NoSleep]
    /\ hist' = IF traced
               THEN Append(hist, [start |-> startedAt, t |-> now,
                                  num |-> w.num, den |-> w.den])
               ELSE hist
Return(c, startedAt, w) ==
    /\ lockHolder' = NoCaller
    /\ pc' = [pc EXCEPT ![c] = AfterAcquire(c)]
    /\ sleep' = [sleep EXCEPT ![c] = NoSleep]
    /\ hist' = IF traced
               THEN Append(hist, [start |-> startedAt, t |-> now,
                                  num |-> w.num, den |-> w.den])
               ELSE hist

\* the body of acquire() from taking the lock to its first suspension or return
Body(c) ==
    LET r == Refill(tokens, last_update, max_requests, now) IN
    /\ last_update' = now
    /\ refillSnap' = [before |-> tokens, tok |-> r, max |-> max_requests]
    /\ IF r < Unit
       THEN /\ tokens' = r
            /\ lockHolder' = c
            /\ pc' = [pc EXCEPT ![c] = "sleeping"]
            /\ sleep' = [sleep EXCEPT ![c] =
                           [start |-> now] @@ wait_time(r, max_requests)]
            /\ UNCHANGED hist
       ELSE /\ tokens' = r - Unit
            /\ Return(c, now, [num |-> 0, den |-> 1])

\* acquire() is called: enter the lock, or queue for it
AcquireEnter(c) ==
    /\ pc[c] = CallSite(c)
    /\ traced => Len(hist) + Cardinality({d \in DOMAIN pc :
                                pc[d] \in {"waiting", "sleeping"}}) < MaxAcquires
    /\ IF LockFree
       THEN Body(c) /\ UNCHANGED waiters
       ELSE /\ waiters' = Append(waiters, c)
            /\ pc' = [pc EXCEPT ![c] = "waiting"]
            /\ UNCHANGED <<tokens, last_update, lockHolder, sleep, hist, refillSnap>>
    /\ UNCHANGED <<now, max_requests, traced>>

\* the released lock is handed to the first waiter, which runs the body
LockGrant(c) ==
    /\ pc[c] = "waiting"
    /\ lockHolder = NoCaller
    /\ waiters # <<>> /\ Head(waiters) = c
    /\ waiters' = Tail(waiters)
    /\ Body(c)
    /\ UNCHANGED <<now, max_requests, traced>>

\* the suspended branch resumes: tokens = 0, leave the lock, return
Wake(c) ==
    /\ pc[c] = "sleeping"
    /\ SleepOver(sleep[c], now)
    /\ tokens' = AfterSleepTokens
    /\ Return(c, sleep[c].start, sleep[c])
    /\ UNCHANGED <<now, max_requests, last_update, waiters, traced, refillSnap>>

\* update_limit(new_limit)
update_limit_clamping(n) ==
    /\ max_requests' = n
    /\ tokens' = Min(tokens, n * Unit)
    /\ UNCHANGED <<now, last_update, lockHolder, waiters, pc, sleep,
                   traced, hist, refillSnap>>
update_limit(n) ==
    /\ max_requests' = n
    /\ UNCHANGED <<now, tokens, last_update, lockHolder, waiters, pc, sleep,
                   traced, hist, refillSnap>>

\* the caller's task is cancelled at `await asyncio.sleep(wait_time)`:
\* CancelledError leaves the `async with` block, which releases the lock;
\* `self.tokens = 0` is not run
Cancel_keepsLock(c) ==
    /\ pc[c] = "sleeping"
    /\ pc' = [pc EXCEPT ![c] = "cancelled"]
    /\ sleep' = [sleep EXCEPT ![c] = NoSleep]
    /\ UNCHANGED <<now, max_requests, tokens, last_update, lockHolder, waiters,
                   traced, hist, refillSnap>>
Cancel(c) ==
    /\ pc[c] = "sleeping"
    /\ lockHolder' = NoCaller
    /\ pc' = [pc EXCEPT ![c] = "cancelled"]
    /\ sleep' = [sleep EXCEPT ![c] = NoSleep]
    /\ UNCHANGED <<now, max_requests, tokens, last_update, waiters,
                   traced, hist, refillSnap>>

\* the monotonic clock advances
Tick ==
    /\ now < MaxTime
    /\ now' = now + 1
    /\ UNCHANGED <<max_requests, tokens, last_update, lockHolder, waiters, pc,
                   sleep, traced, hist, refillSnap>>

\* ----------------------------------------------------------- RetryHandler

RECURSIVE Pow(_, _)
Pow(b, e) == IF e = 0 THEN 1 ELSE b * Pow(b, e - 1)

\* get_delay(attempt): min(base_delay * backoff_factor ** attempt, max_delay),
\* in seconds as <<num, den>>; backoff_factor is backoff_num / backoff_den
get_delay(h, a) ==
    IF h.base_delay * Pow(h.backoff_num, a) <= h.max_delay * Pow(h.backoff_den, a)
    THEN [num |-> h.base_delay * Pow(h.backoff_num, a), den |-> Pow(h.backoff_den, a)]
    ELSE [num |-> h.max_delay, den |-> 1]

\* RetryHandler(max_retries=Config.MAX_RETRIES, base_delay=1.0,
\*              backoff_factor=Config.RETRY_BACKOFF_FACTOR) with max_delay=60.0
ClientRetryHandler(n) ==
    [max_retries |-> n, base_delay |-> 1, backoff_num |-> 3, backoff_den |-> 2,
     max_delay |-> 60]

\* backoff_factor ** attempt on floats raises OverflowError once the power
\* leaves the range of a double (2.0 ** 1024, 1.5 ** 1751); the first such
\* attempt for the factors the model draws, none for a factor of 1
OverflowFrom(h) ==
    CASE h.backoff_num = 2 /\ h.backoff_den = 1 -> 1024
      [] h.backoff_num = 3 /\ h.backoff_den = 2 -> 1751
      [] OTHER -> -1

PowOverflows(h, a) == OverflowFrom(h) >= 0 /\ a >= OverflowFrom(h)

\* ------------------------------------------------------------ error types

NoValue == -1
DefaultRetryAfter == 60
TruncateAt == 500

\* keyword parameters each exception's __init__ accepts
InitParams(cls) ==
    CASE cls = "PubMedError"             -> {"message", "details"}
      [] cls = "RateLimitError"          -> {"message", "retry_after"}
      [] cls = "InvalidQueryError"       -> {"message", "query", "suggestion"}
      [] cls = "ArticleNotFoundError"    -> {"message", "identifier", "id_type"}
      [] cls = "ServiceUnavailableError" -> {"message", "retry_after"}
      [] cls = "NetworkError"            -> {"message", "original_error"}

\* a keyword argument's value, or None when it is not passed
Field(kw, f) == IF f \in DOMAIN kw THEN kw[f] ELSE NoValue
TextField(kw, f) == IF f \in DOMAIN kw THEN kw[f] ELSE "None"

\* an exception object: its class and the attributes the request core sets
Exc(cls, msg, retryAfter, details, cause) ==
    [error |-> cls, message |-> msg, retry_after |-> retryAfter,
     details |-> details, original_error |-> cause]

\* cls(**kw): the instance, or the TypeError Python raises for an unexpected
\* keyword argument
Construct(cls, kw) ==
    IF DOMAIN kw \subseteq InitParams(cls)
    THEN Exc(cls, kw.message, Field(kw, "retry_after"), Field(kw, "details"),
             TextField(kw, "original_error"))
    ELSE Exc("TypeError", "unexpected keyword argument", NoValue, NoValue, "None")

\* map_http_status_to_error(status_code, response_text): the dict literal is
\* evaluated entry by entry, then .get(status_code, default)
map_http_status_to_error(status_code, response_text) ==
    LET error_mapping == <<
            <<400, Construct("InvalidQueryError",
                      [message |-> "Bad request - check query syntax",
                       details |-> response_text])>>,
            <<401, Construct("PubMedError",
                      [message |-> "Authentication error - check API key",
                       details |-> response_text])>>,
            <<404, Construct("ArticleNotFoundError",
                      [message |-> "Resource not found",
                       details |-> response_text])>>,
            <<429, Construct("RateLimitError",
                      [message |-> "Rate limit exceeded - retry with backoff",
                       retry_after |-> 60])>>,
            <<500, Construct("ServiceUnavailableError",
                      [message |-> "NCBI internal server error", retry_after |-> 60])>>,
            <<502, Construct("ServiceUnavailableError",
                      [message |-> "NCBI gateway error", retry_after |-> 30])>>,
            <<503, Construct("ServiceUnavailableError",
                      [message |-> "NCBI service temporarily unavailable",
                       retry_after |-> 60])>>,
            <<504, Construct("ServiceUnavailableError",
                      [message |-> "NCBI gateway timeout", retry_after |-> 30])>> >>
        default == Construct("PubMedError",
                      [message |-> "HTTP error", details |-> response_text])
        failed == {i \in DOMAIN error_mapping : error_mapping[i][2].error = "TypeError"}
        hit == {i \in DOMAIN error_mapping : error_mapping[i][1] = status_code}
    IN  IF failed # {}
        THEN error_mapping[CHOOSE i \in failed : \A j \in failed : i <= j][2]
        ELSE IF hit # {} THEN error_mapping[CHOOSE i \in hit : TRUE][2]
        ELSE default

\* response.text[:500], the text modelled by its length
Truncate(textLen) == Min(textLen, TruncateAt)

\* float(response.headers.get("Retry-After", 60)): the number, or the
\* ValueError float() raises for a header that is not a decimal number
\* (Retry-After may carry an HTTP-date)
RetryAfterFloat(header) ==
    CASE header.kind = "absent"  -> [ok |-> TRUE, value |-> DefaultRetryAfter]
      [] header.kind = "seconds" -> [ok |-> TRUE, value |-> header.value]
      [] OTHER                   -> [ok |-> FALSE, value |-> NoValue]

\* ---------------------------------------------------- BaseClient._request

Statuses == {200, 400, 401, 403, 404, 429, 499, 500, 503}
RetryAfterHeaders ==
    {[kind |-> "absent", value |-> 0], [kind |-> "seconds", value |-> 30],
     [kind |-> "http-date", value |-> 0]}
TextLens == {0, 501}

\* what one HTTP call can come back with
Responses ==
    [kind : {"response"}, status : Statuses, header : RetryAfterHeaders,
     textLen : TextLens, cause : {""}]
    \cup [kind : {"timeout"}, status : {0},
          header : {[kind |-> "absent", value |-> 0]}, textLen : {0},
          cause : {"ReadTimeout"}]
    \cup [kind : {"request_error"}, status : {0},
          header : {[kind |-> "absent", value |-> 0]}, textLen : {0},
          cause : {"ConnectError"}]

NoResp == [kind |-> "none", status |-> 0,
           header |-> [kind |-> "absent", value |-> 0], textLen |-> 0, cause |-> ""]
NoExc == Exc("None", "", NoValue, NoValue, "None")
NoResult == [outcome |-> "none", value |-> NoExc, response |-> NoResp]
Raised(e) == [outcome |-> "raised", value |-> e, response |-> NoResp]
Returned_stripped(resp) == [outcome |-> "returned", value |-> NoExc, response |-> NoResp]
Returned(resp) == [outcome |-> "returned", value |-> NoExc, response |-> resp]

\* attempt < self.retry_handler.max_retries
RetriesRemain_inclusive(a) == a <= retry_handler.max_retries
RetriesRemain(a) == a < retry_handler.max_retries

\* response.status_code >= 500
IsServerError_from400(status) == status >= 400
IsServerError(status) == status >= 500

\* the duration of the wait before the retry of a 429:
\* self.retry_handler.wait(attempt)
RateLimitWait_hint(resp, a) ==
    IF resp.header.kind = "seconds"
    THEN [num |-> resp.header.value, den |-> 1]
    ELSE get_delay(retry_handler, a)
RateLimitWait(resp, a) == get_delay(retry_handler, a)

\* the first statement of the loop body: await self.rate_limiter.acquire()
LoopBodyStart_noAcquire == "acquired"
LoopBodyStart == "loop"

\* str(e): the description of the failure the transport reported
str_e_dropped(resp) == "None"
str_e(resp) == resp.cause

\* _request ends
Finish(r) ==
    /\ pc' = [pc EXCEPT ![Requester] = "done"]
    /\ result' = r
    /\ UNCHANGED sleep

\* await self.retry_handler.wait(attempt); continue
Backoff(d) ==
    /\ pc' = [pc EXCEPT ![Requester] = "backoff"]
    /\ sleep' = [sleep EXCEPT ![Requester] = [start |-> now] @@ d]
    /\ UNCHANGED result

\* await self.retry_handler.wait(a): get_delay(a) is computed (d), then slept
wait(a, d) ==
    IF PowOverflows(retry_handler, a)
    THEN Finish(Raised(Exc("OverflowError", "Numerical result out of range",
                           NoValue, NoValue, "None")))
    ELSE Backoff(d)

\* a in range(self.retry_handler.max_retries + 1)
InRange_short(a) == a < retry_handler.max_retries
InRange(a) == a < retry_handler.max_retries + 1

\* for attempt in range(max_retries + 1): the loop is entered, or is empty
ReqStart ==
    /\ pc[Requester] = "init"
    /\ attempt' = 0
    /\ IF InRange(0)
       THEN pc' = [pc EXCEPT ![Requester] = LoopBodyStart] /\ UNCHANGED result
       ELSE /\ pc' = [pc EXCEPT ![Requester] = "done"]
            /\ result' = Raised(Construct("PubMedError",
                                          [message |-> "Max retries exceeded"]))
    /\ UNCHANGED <<limiterVars_nopc, retry_handler, retry_on_rate_limit, lastResp,
                   httpCalls, acqCalls, acqDone, waits, allServerErr>>

\* await self.rate_limiter.acquire(): the call
ReqAcquire ==
    /\ AcquireEnter(Requester)
    /\ acqCalls' = acqCalls + 1
    /\ acqDone' = IF pc'[Requester] = AfterAcquire(Requester)
                  THEN acqDone + 1 ELSE acqDone
    /\ UNCHANGED <<retry_handler, retry_on_rate_limit, attempt, lastResp, result,
                   httpCalls, waits, allServerErr>>

\* await self.rate_limiter.acquire(): a suspended call returns
ReqAcquireResume ==
    /\ Wake(Requester)
    /\ acqDone' = IF pc'[Requester] = AfterAcquire(Requester)
                  THEN acqDone + 1 ELSE acqDone
    /\ UNCHANGED <<retry_handler, retry_on_rate_limit, attempt, lastResp, result,
                   httpCalls, acqCalls, waits, allServerErr>>

\* client.get / client.post / client.request is called
ReqIssue ==
    /\ pc[Requester] = "acquired"
    /\ pc' = [pc EXCEPT ![Requester] = "http"]
    /\ httpCalls' = httpCalls + 1
    /\ UNCHANGED <<limiterVars_nopc, retry_handler, retry_on_rate_limit, attempt,
                   lastResp, result, acqCalls, acqDone, waits, allServerErr>>

\* the HTTP call completes with resp and is classified
Classify(resp) ==
    IF resp.kind = "timeout" THEN
        IF RetriesRemain(attempt)
        THEN wait(attempt, get_delay(retry_handler, attempt))
        ELSE Finish(Raised(Construct("NetworkError",
                        [message |-> "Request timed out",
                         original_error |-> str_e(resp)])))
    ELSE IF resp.kind = "request_error" THEN
        IF RetriesRemain(attempt)
        THEN wait(attempt, get_delay(retry_handler, attempt))
        ELSE Finish(Raised(Construct("NetworkError",
                        [message |-> "Network request failed",
                         original_error |-> str_e(resp)])))
    ELSE IF resp.status = 429 THEN
        IF retry_on_rate_limit /\ RetriesRemain(attempt)
        THEN wait(attempt, RateLimitWait(resp, attempt))
        ELSE LET ra == RetryAfterFloat(resp.header) IN
             IF ra.ok
             THEN Finish(Raised(Construct("RateLimitError",
                        [message |-> "Rate limit exceeded after retries",
                         retry_after |-> ra.value])))
             ELSE Finish(Raised(Exc("ValueError", "could not convert string to float",
                                    NoValue, NoValue, "None")))
    ELSE IF IsServerError(resp.status) THEN
        IF RetriesRemain(attempt)
        THEN wait(attempt, get_delay(retry_handler, attempt))
        ELSE Finish(Raised(Construct("ServiceUnavailableError",
                        [message |-> "Server error", retry_after |-> 60])))
    ELSE IF resp.status >= 400 THEN
        Finish(Raised(map_http_status_to_error(resp.status, Truncate(resp.textLen))))
    ELSE Finish(Returned(resp))

ReqRespond(resp) ==
    /\ pc[Requester] = "http"
    /\ lastResp' = resp
    /\ allServerErr' = (allServerErr /\ resp.kind = "response" /\ resp.status >= 500)
    /\ Classify(resp)
    /\ UNCHANGED <<now, max_requests, tokens, last_update, lockHolder, waiters,
                   traced, hist, refillSnap>>
    /\ UNCHANGED <<retry_handler, retry_on_rate_limit, attempt, httpCalls,
                   acqCalls, acqDone, waits>>

\* the retry wait is over: the loop takes the next value of attempt, or ends
ReqBackoffOver ==
    /\ pc[Requester] = "backoff"
    /\ SleepOver(sleep[Requester], now)
    /\ waits' = Append(waits, [num |-> sleep[Requester].num, den |-> sleep[Requester].den])
    /\ sleep' = [sleep EXCEPT ![Requester] = NoSleep]
    /\ attempt' = attempt + 1
    /\ IF InRange(attempt + 1)
       THEN pc' = [pc EXCEPT ![Requester] = LoopBodyStart] /\ UNCHANGED result
       ELSE /\ pc' = [pc EXCEPT ![Requester] = "done"]
            /\ result' = Raised(Construct("PubMedError",
                                          [message |-> "Max retries exceeded"]))
    /\ UNCHANGED <<now, max_requests, tokens, last_update, lockHolder, waiters,
                   traced, hist, refillSnap>>
    /\ UNCHANGED <<retry_handler, retry_on_rate_limit, lastResp, httpCalls,
                   acqCalls, acqDone, allServerErr>>

\* --------------------------------------------------------- SessionManager

\* None, for the string-valued fields
None == "None"

\* None, for from_step / step
NoStep == -1

\* truth value of an Optional[str]: None and "" are false
Truthy(x) == x # None /\ x # ""

\* truth value of an Optional[int] (if from_step: / if step:)
StepGiven(n) == n # NoStep /\ n # 0

\* what the injected client was called with; NoCall when it was not called
NoCall == [fn |-> "none", db |-> None, dbfrom |-> None, query |-> None,
           query_key |-> None, web_env |-> None]
SearchCall(db, query) ==
    [fn |-> "search", db |-> db, dbfrom |-> None, query |-> query,
     query_key |-> None, web_env |-> None]
LinkCall(from_db, to_db, query_key, w) ==
    [fn |-> "link", db |-> to_db, dbfrom |-> from_db, query |-> None,
     query_key |-> query_key, web_env |-> w]
FetchCall(db, query_key, w) ==
    [fn |-> "fetch", db |-> db, dbfrom |-> None, query |-> None,
     query_key |-> query_key, web_env |-> w]

\* what the injected client answers: it raises, or returns a result
\* (search: web_env, query_key, count; link: the ids of its linksets, counted)
NoAnswer == [kind |-> "none", web_env |-> None, query_key |-> None, count |-> 0]
ClientRaises == [kind |-> "raise", web_env |-> None, query_key |-> None, count |-> 0]
SearchAnswers ==
    [kind : {"result"}, web_env : {None, "W1", "W2"}, query_key : {None, "1"},
     count : {7}]
    \cup {ClientRaises}
LinkAnswers ==
    {[kind |-> "result", web_env |-> None, query_key |-> None, count |-> 2],
     ClientRaises}
FetchAnswers ==
    {[kind |-> "result", web_env |-> None, query_key |-> None, count |-> 0],
     ClientRaises}

\* arguments the callers pass
Databases == {"pubmed"}
Queries == {"asthma"}
Combinations == {<<None, "AND">>, <<"1", "NOT">>}
StepArgs == {NoStep, 0, 1, MaxSteps + 1}

\* the outcome of the latest operation
Op(op, arg, outcome, error, sent, got) ==
    [op |-> op, arg |-> arg, outcome |-> outcome, error |-> error,
     sent |-> sent, got |-> got]
NoOp == Op("none", NoStep, "none", "", NoCall, NoAnswer)

PipelineStep(step_number, operation, database, query_key, result_count, parameters) ==
    [step_number |-> step_number, operation |-> operation, database |-> database,
     query_key |-> query_key, result_count |-> result_count,
     parameters |-> parameters]

\* self._step_counter += 1
StepCounterAfter_same(c) == c
StepCounterAfter(c) == c + 1

\* if not self.web_env: (the guard of add_link_step and fetch_results)
NoActiveSession_never(w) == FALSE
NoActiveSession(w) == ~Truthy(w)

\* not (not self.web_env or not query_key), on the search result
HistoryReturned_webEnvOnly(res) == Truthy(res.web_env)
HistoryReturned(res) == Truthy(res.web_env) /\ Truthy(res.query_key)

\* full_query = query; if combine_with: f"#{combine_with} {combine_operator} ({query})"
full_query_plain(query, combine_with, combine_operator) == query
full_query(query, combine_with, combine_operator) ==
    IF Truthy(combine_with)
    THEN "#" \o combine_with \o " " \o combine_operator \o " (" \o query \o ")"
    ELSE query

\* if result.get("web_env"): self.web_env = result["web_env"]
WebEnvAfterSearch_always(w, res) == res.web_env
WebEnvAfterSearch(w, res) == IF Truthy(res.web_env) THEN res.web_env ELSE w

\* next((s for s in self.steps if s.step_number == n), None): its index, 0 for None
FindStep(n) ==
    LET hits == {i \in 1..Len(steps) : steps[i].step_number = n}
    IN  IF hits = {} THEN 0 ELSE CHOOSE i \in hits : \A j \in hits : i <= j

\* the handle of the latest search result that carried one
Supplied(res) == IF Truthy(res.web_env) THEN res.web_env ELSE lastSupplied

\* an operation fails: the exception leaves the manager as it is
Fail(op, arg, error, sent, got) ==
    /\ lastOp' = Op(op, arg, "raised", error, sent, got)
    /\ UNCHANGED <<web_env, steps, step_counter, afterReset>>

\* a step is recorded and returned
Record(op, arg, operation, database, query_key, result_count, parameters, sent, got) ==
    /\ Len(steps) < MaxSteps
    /\ step_counter' = StepCounterAfter(step_counter)
    /\ steps' = Append(steps, PipelineStep(step_counter', operation, database,
                                           query_key, result_count, parameters))
    /\ lastOp' = Op(op, arg, "returned", "", sent, got)

\* the body of start_session(db, query), the search answering res; op names
\* the operation the caller invoked
StartSessionBody(op, db, query, res) ==
    LET sent == SearchCall(db, query) IN
    IF res.kind = "raise"
    THEN Fail(op, NoStep, "client", sent, res) /\ UNCHANGED lastSupplied
    ELSE /\ web_env' = res.web_env
         /\ lastSupplied' = Supplied(res)
         /\ IF ~HistoryReturned(res)
            THEN /\ lastOp' = Op(op, NoStep, "raised",
                                 "Failed to start session: no History data returned",
                                 sent, res)
                 /\ UNCHANGED <<steps, step_counter, afterReset>>
            ELSE /\ Record(op, NoStep, "search", db, res.query_key, res.count,
                           [query |-> query], sent, res)
                 /\ afterReset' = FALSE

start_session(db, query, res) ==
    /\ StartSessionBody("start_session", db, query, res)
    /\ UNCHANGED otherVars

\* add_search_step after `await self.client.search(...)` has answered res to
\* the call `sent`
SearchStepBody(db, query, combine_with, combine_operator, sent, res) ==
    IF res.kind = "raise"
    THEN Fail("add_search_step", NoStep, "client", sent, res)
         /\ UNCHANGED lastSupplied
    ELSE /\ web_env' = WebEnvAfterSearch(web_env, res)
         /\ lastSupplied' = Supplied(res)
         /\ Record("add_search_step", NoStep, "search", db, res.query_key,
                   res.count,
                   [query |-> query, combined_with |-> combine_with,
                    operator |-> combine_operator], sent, res)
         /\ UNCHANGED afterReset

add_search_step(db, query, combine_with, combine_operator, res) ==
    /\ IF ~Truthy(web_env)
       THEN StartSessionBody("add_search_step", db, query, res)
       ELSE SearchStepBody(db, query, combine_with, combine_operator,
                SearchCall(db, full_query(query, combine_with, combine_operator)),
                res)
    /\ UNCHANGED otherVars

\* the guards of add_link_step: the message of the error raised, "" for none
LinkGuard(from_step) ==
    IF NoActiveSession(web_env) THEN "Cannot add link step: no active session"
    ELSE IF StepGiven(from_step) /\ FindStep(from_step) = 0
         THEN "Step not found in pipeline"
    ELSE IF ~StepGiven(from_step) /\ steps = <<>>
         THEN "No previous steps in pipeline"
    ELSE ""

\* the step add_link_step links from, once the guards have passed
SourceStep(from_step) ==
    IF StepGiven(from_step) THEN steps[FindStep(from_step)] ELSE steps[Len(steps)]

\* new_query_key = str(len(self.steps) + 1), evaluated after the client call
\* `sent` has been answered
LinkKey_ofSource(sent) == sent.query_key
LinkKey(sent) == ToString(Len(steps) + 1)

\* add_link_step after `await self.client.link(...)` has answered res to the
\* call `sent`
LinkStepBody(from_db, to_db, link_name, from_step, sent, res) ==
    /\ IF res.kind = "raise"
       THEN Fail("add_link_step", from_step, "client", sent, res)
       ELSE /\ Record("add_link_step", from_step, "link", to_db,
                      LinkKey(sent), res.count,
                      [from_db |-> from_db, link_name |-> link_name,
                       from_step |-> from_step], sent, res)
            /\ UNCHANGED <<web_env, afterReset>>
    /\ UNCHANGED lastSupplied

add_link_step(from_db, to_db, link_name, from_step, res) ==
    /\ IF LinkGuard(from_step) # ""
       THEN Fail("add_link_step", from_step, LinkGuard(from_step), NoCall, NoAnswer)
            /\ UNCHANGED lastSupplied
       ELSE LinkStepBody(from_db, to_db, link_name, from_step,
                LinkCall(from_db, to_db, SourceStep(from_step).query_key, web_env),
                res)
    /\ UNCHANGED otherVars

fetch_results(step, res) ==
    /\ IF NoActiveSession(web_env)
       THEN Fail("fetch_results", step, "Cannot fetch: no active session",
                 NoCall, NoAnswer)
       ELSE IF StepGiven(step) /\ FindStep(step) = 0
       THEN Fail("fetch_results", step, "Step not found in pipeline", NoCall, NoAnswer)
       ELSE IF ~StepGiven(step) /\ steps = <<>>
       THEN Fail("fetch_results", step, "No steps in pipeline", NoCall, NoAnswer)
       ELSE LET source_step == IF StepGiven(step)
                               THEN steps[FindStep(step)]
                               ELSE steps[Len(steps)]
                sent == FetchCall(source_step.database, source_step.query_key, web_env)
            IN  IF res.kind = "raise"
                THEN Fail("fetch_results", step, "client", sent, res)
                ELSE /\ lastOp' = Op("fetch_results", step, "returned", "", sent, res)
                     /\ UNCHANGED <<web_env, steps, step_counter, afterReset>>
    /\ UNCHANGED lastSupplied
    /\ UNCHANGED otherVars

\* get_pipeline_summary(): web_env, total_steps and final_result_count of the
\* returned dictionary (its "steps" entry lists the steps as they are)
get_pipeline_summary ==
    /\ lastOp' = Op("get_pipeline_summary", Len(steps), "returned", "", NoCall,
                    [kind |-> "summary", web_env |-> web_env, query_key |-> None,
                     count |-> IF steps # <<>> THEN steps[Len(steps)].result_count
                               ELSE 0])
    /\ UNCHANGED <<web_env, steps, step_counter, lastSupplied, afterReset>>
    /\ UNCHANGED otherVars

reset ==
    /\ web_env' = None
    /\ steps' = <<>>
    /\ step_counter' = 0
    /\ afterReset' = TRUE
    /\ lastOp' = Op("reset", NoStep, "returned", "", NoCall, NoAnswer)
    /\ UNCHANGED lastSupplied
    /\ UNCHANGED otherVars

\* no pipeline tool is running and no SessionManager call is suspended
NoTool == [pc |-> "none", len |-> 0, i |-> 0, output_step |-> NoStep,
           final_results |-> None]
NoPending == [op |-> "none"]
NoTasks ==
    /\ tool = NoTool
    /\ pending = [c \in Callers |-> NoPending]

\* SessionManager.__init__
NewSession ==
    /\ web_env = None
    /\ steps = <<>>
    /\ step_counter = 0
    /\ lastOp = NoOp
    /\ lastSupplied = None
    /\ afterReset = FALSE

\* -------------------------------------------------------- specifications

\* no request in progress
NoRequest ==
    /\ retry_handler = ClientRetryHandler(0)
    /\ retry_on_rate_limit = TRUE
    /\ attempt = 0
    /\ lastResp = NoResp
    /\ result = NoResult
    /\ httpCalls = 0
    /\ acqCalls = 0
    /\ acqDone = 0
    /\ waits = <<>>
    /\ allServerErr = TRUE

\* RateLimiter.__init__(max_requests=C, window)
NewLimiter(C) ==
    /\ now = 0
    /\ max_requests = C
    /\ tokens = max_requests * Unit
    /\ last_update = 0
    /\ lockHolder = NoCaller
    /\ waiters = <<>>
    /\ hist = <<>>
    /\ refillSnap = [before |-> max_requests * Unit, tok |-> max_requests * Unit,
                     max |-> max_requests]

\* a caller of acquire() is asleep and its wait_time has not passed
SleepPending == \E c \in Callers : pc[c] = "sleeping" /\ ~SleepOver(sleep[c], now)

\* the monotonic clock advances for as long as some asyncio.sleep has
\* not run out
Elapse ==
    /\ now < MaxTime \/ SleepPending
    /\ now' = now + 1
    /\ UNCHANGED <<max_requests, tokens, last_update, lockHolder, waiters, pc,
                   sleep, traced, hist, refillSnap>>

\* the limiter right after C acquire() calls made at the instant of creation
DrainedLimiter(C) ==
    /\ now = 0
    /\ max_requests = C
    /\ tokens = 0
    /\ last_update = 0
    /\ lockHolder = NoCaller
    /\ waiters = <<>>
    /\ hist = <<>>
    /\ refillSnap = [before |-> Unit, tok |-> Unit, max |-> max_requests]

\* callers that only call acquire()
IdleCallers ==
    /\ pc = [c \in Callers |-> "idle"]
    /\ sleep = [c \in Callers |-> NoSleep]

\* callers of acquire() and update_limit() on one limiter
InitLimiter ==
    /\ \E C \in Capacities : NewLimiter(C)
    /\ IdleCallers /\ NoRequest /\ traced = FALSE /\ NewSession /\ NoTasks

NextLimiter ==
    \/ \E c \in Callers : AcquireEnter(c) /\ UNCHANGED <<requestVars, sessionVars, taskVars>>
    \/ \E c \in Callers : LockGrant(c) /\ UNCHANGED <<requestVars, sessionVars, taskVars>>
    \/ \E c \in Callers : Wake(c) /\ UNCHANGED <<requestVars, sessionVars, taskVars>>
    \/ \E n \in Capacities : update_limit(n) /\ UNCHANGED <<requestVars, sessionVars, taskVars>>
    \/ Tick /\ UNCHANGED <<requestVars, sessionVars, taskVars>>

SpecLimiter == InitLimiter /\ [][NextLimiter]_vars

\* callers of acquire() alone (no update_limit), every completed call recorded
InitTrace ==
    /\ \E C \in Capacities : NewLimiter(C)
    /\ IdleCallers /\ NoRequest /\ traced = TRUE /\ NewSession /\ NoTasks

NextTrace ==
    \/ \E c \in Callers : AcquireEnter(c) /\ UNCHANGED <<requestVars, sessionVars, taskVars>>
    \/ \E c \in Callers : LockGrant(c) /\ UNCHANGED <<requestVars, sessionVars, taskVars>>
    \/ \E c \in Callers : Wake(c) /\ UNCHANGED <<requestVars, sessionVars, taskVars>>
    \/ Tick /\ UNCHANGED <<requestVars, sessionVars, taskVars>>

SpecTrace == InitTrace /\ [][NextTrace]_vars

\* the event loop runs every task that is ready: a released lock is handed
\* to its first waiter, a sleep that has run out resumes, and time passes
LimiterStep(A) == A /\ UNCHANGED <<requestVars, sessionVars, taskVars>>

EventLoopFairness ==
    /\ WF_vars(LimiterStep(Elapse))
    /\ \A c \in Callers : WF_vars(LimiterStep(LockGrant(c)))
    /\ \A c \in Callers : WF_vars(LimiterStep(Wake(c)))

\* callers of acquire() under the event loop's scheduling
NextLive ==
    \/ \E c \in Callers : LimiterStep(AcquireEnter(c))
    \/ \E c \in Callers : LimiterStep(LockGrant(c))
    \/ \E c \in Callers : LimiterStep(Wake(c))
    \/ LimiterStep(Elapse)

SpecLive == InitTrace /\ [][NextLive]_vars /\ EventLoopFairness

\* callers of acquire(), any of which may be cancelled while it sleeps
NextCancel ==
    \/ \E c \in Callers : LimiterStep(AcquireEnter(c))
    \/ \E c \in Callers : LimiterStep(LockGrant(c))
    \/ \E c \in Callers : LimiterStep(Wake(c))
    \/ \E c \in Callers : LimiterStep(Cancel(c))
    \/ LimiterStep(Elapse)

SpecCancel == InitTrace /\ [][NextCancel]_vars /\ EventLoopFairness

\* BaseClient.__init__: rate_limit = 10 if self.api_key else 3
RateLimitWithKey == 10
RateLimitWithoutKey == 3

\* one _request(..., retry_on_rate_limit) on a client whose limiter is fresh
\* or has just been drained by earlier requests; the limiter's clock runs
InitRequest ==
    /\ \E C \in {RateLimitWithoutKey, RateLimitWithKey} :
            NewLimiter(C) \/ DrainedLimiter(C)
    /\ traced = FALSE
    /\ pc = [c \in {Requester} |-> "init"]
    /\ sleep = [c \in {Requester} |-> NoSleep]
    /\ \E n \in 0..MaxRetries : retry_handler = ClientRetryHandler(n)
    /\ retry_on_rate_limit \in BOOLEAN
    /\ attempt = 0
    /\ lastResp = NoResp
    /\ result = NoResult
    /\ httpCalls = 0
    /\ acqCalls = 0
    /\ acqDone = 0
    /\ waits = <<>>
    /\ allServerErr = TRUE
    /\ NewSession /\ NoTasks

NextRequest ==
    \/ ReqStart /\ UNCHANGED <<sessionVars, taskVars>>
    \/ ReqAcquire /\ UNCHANGED <<sessionVars, taskVars>>
    \/ ReqAcquireResume /\ UNCHANGED <<sessionVars, taskVars>>
    \/ ReqIssue /\ UNCHANGED <<sessionVars, taskVars>>
    \/ \E resp \in Responses : ReqRespond(resp) /\ UNCHANGED <<sessionVars, taskVars>>
    \/ ReqBackoffOver /\ UNCHANGED <<sessionVars, taskVars>>
    \/ Tick /\ UNCHANGED <<requestVars, sessionVars, taskVars>>

SpecRequest == InitRequest /\ [][NextRequest]_vars

\* RetryHandler(max_retries, base_delay, backoff_factor, max_delay) instances
RetryHandlers ==
    {[max_retries |-> 3, base_delay |-> b, backoff_num |-> f[1],
      backoff_den |-> f[2], max_delay |-> m] :
        b \in {1, 2}, f \in {<<1, 1>>, <<2, 1>>, <<3, 2>>}, m \in {5, 60}}

\* the attempt numbers wait() is called with
Attempts(h) ==
    (0..MaxAttempt) \cup (IF OverflowFrom(h) >= 0 THEN {OverflowFrom(h)} ELSE {})

\* retry_handler.wait(attempt) is called
WaitCall ==
    /\ pc[Requester] = "init"
    /\ wait(attempt, get_delay(retry_handler, attempt))
    /\ UNCHANGED <<now, max_requests, tokens, last_update, lockHolder, waiters,
                   traced, hist, refillSnap>>
    /\ UNCHANGED <<retry_handler, retry_on_rate_limit, attempt, lastResp,
                   httpCalls, acqCalls, acqDone, waits, allServerErr>>

\* its asyncio.sleep(delay) is over: wait() returns; the next call may follow
WaitOver ==
    /\ pc[Requester] = "backoff"
    /\ SleepOver(sleep[Requester], now)
    /\ waits' = <<[num |-> sleep[Requester].num, den |-> sleep[Requester].den]>>
    /\ sleep' = [sleep EXCEPT ![Requester] = NoSleep]
    /\ pc' = [pc EXCEPT ![Requester] = "init"]
    /\ attempt' \in Attempts(retry_handler)
    /\ UNCHANGED <<now, max_requests, tokens, last_update, lockHolder, waiters,
                   traced, hist, refillSnap>>
    /\ UNCHANGED <<retry_handler, retry_on_rate_limit, lastResp, result, httpCalls,
                   acqCalls, acqDone, allServerErr>>

\* a RetryHandler of its own, wait(attempt) called with any attempt number
InitBackoff ==
    /\ NewLimiter(RateLimitWithoutKey)
    /\ traced = FALSE
    /\ pc = [c \in {Requester} |-> "init"]
    /\ sleep = [c \in {Requester} |-> NoSleep]
    /\ retry_handler \in RetryHandlers
    /\ attempt \in Attempts(retry_handler)
    /\ retry_on_rate_limit = TRUE
    /\ lastResp = NoResp
    /\ result = NoResult
    /\ httpCalls = 0
    /\ acqCalls = 0
    /\ acqDone = 0
    /\ waits = <<>>
    /\ allServerErr = TRUE
    /\ NewSession /\ NoTasks

NextBackoff ==
    \/ WaitCall /\ UNCHANGED <<sessionVars, taskVars>>
    \/ WaitOver /\ UNCHANGED <<sessionVars, taskVars>>
    \/ Tick /\ UNCHANGED <<requestVars, sessionVars, taskVars>>

SpecBackoff == InitBackoff /\ [][NextBackoff]_vars

\* one SessionManager used sequentially: each operation runs to its end, the
\* injected client answering its call, before the next one is invoked
InitSession ==
    /\ NewLimiter(RateLimitWithoutKey)
    /\ IdleCallers /\ NoRequest /\ traced = FALSE
    /\ NewSession /\ NoTasks

\* a SessionManager operation called on its own, outside any task
SessionStep(A) == A /\ UNCHANGED taskVars

NextSession ==
    \/ \E db \in Databases, query \in Queries, res \in SearchAnswers :
            SessionStep(start_session(db, query, res))
    \/ \E db \in Databases, query \in Queries, cmb \in Combinations,
          res \in SearchAnswers :
            SessionStep(add_search_step(db, query, cmb[1], cmb[2], res))
    \/ \E from_step \in StepArgs, res \in LinkAnswers :
            SessionStep(add_link_step("pubmed", "pmc", None, from_step, res))
    \/ \E step \in StepArgs, res \in FetchAnswers :
            SessionStep(fetch_results(step, res))
    \/ SessionStep(get_pipeline_summary)
    \/ SessionStep(reset)

SpecSession == InitSession /\ [][NextSession]_vars

\* ------------------------------------------------- build_search_pipeline

\* search results the pipeline's client may give, an empty result included
PipelineAnswers ==
    SearchAnswers \cup
        {[kind |-> "result", web_env |-> "W1", query_key |-> "1", count |-> 0]}

\* params.get("combine_with") of a "combine" step: absent, or a step number
CombineWith == {NoStep, 1}

\* the loop continues after a session call unless the call raised
AfterCall ==
    IF lastOp'.outcome = "raised"
    THEN [tool EXCEPT !.pc = "raised"]
    ELSE [tool EXCEPT !.i = @ + 1]

InLoop == tool.pc = "loop" /\ tool.i < tool.len

\* an input step that calls nothing: step_result stays None
Skip ==
    /\ tool' = [tool EXCEPT !.i = @ + 1]
    /\ UNCHANGED <<sessionVars, otherVars>>

\* operation == "search"
PipelineSearch(db, query, combine_with, operator, res) ==
    /\ InLoop
    /\ IF tool.i = 0
       THEN start_session(db, query, res)
       ELSE add_search_step(db, query, combine_with, operator, res)
    /\ tool' = AfterCall
    /\ UNCHANGED pending

\* operation == "link"
PipelineLink(from_db, to_db, from_step, res) ==
    /\ InLoop
    /\ add_link_step(from_db, to_db, None, from_step, res)
    /\ tool' = AfterCall
    /\ UNCHANGED pending

\* operation == "combine"
PipelineCombine(db, combine_with, operator, res) ==
    /\ InLoop
    /\ IF StepGiven(combine_with)
       THEN /\ add_search_step(db, "*", ToString(combine_with), operator, res)
            /\ tool' = AfterCall
       ELSE Skip
    /\ UNCHANGED pending

\* any other operation
PipelineOther ==
    /\ InLoop
    /\ Skip
    /\ UNCHANGED pending

\* summary = session.get_pipeline_summary(); the fetch is made only for a
\* positive final_result_count
PipelineSummary ==
    /\ tool.pc = "loop" /\ tool.i = tool.len
    /\ get_pipeline_summary
    /\ tool' = [tool EXCEPT !.pc = IF lastOp'.got.count > 0 THEN "fetch" ELSE "done"]
    /\ UNCHANGED pending

\* target_step = output_step or len(steps), over the input list
target_step == IF StepGiven(tool.output_step) THEN tool.output_step ELSE tool.len

\* raw_results = await session.fetch_results(step=target_step, ...), any
\* exception logged and dropped
PipelineFetch(res) ==
    /\ tool.pc = "fetch"
    /\ fetch_results(target_step, res)
    /\ tool' = [tool EXCEPT !.pc = "done",
                            !.final_results = IF lastOp'.outcome = "returned"
                                              THEN "preview" ELSE None]
    /\ UNCHANGED pending

\* build_search_pipeline(steps, output_step) on its own SessionManager
InitPipeline ==
    /\ NewLimiter(RateLimitWithoutKey)
    /\ IdleCallers /\ NoRequest /\ traced = FALSE
    /\ NewSession
    /\ tool \in [pc : {"loop"}, len : 0..MaxSteps, i : {0},
                 output_step : {NoStep, 1}, final_results : {None}]
    /\ pending = [c \in Callers |-> NoPending]

NextPipeline ==
    \/ \E db \in Databases, query \in Queries, cmb \in Combinations,
          res \in PipelineAnswers :
            PipelineSearch(db, query, cmb[1], cmb[2], res)
    \/ \E from_step \in {NoStep, 1}, res \in LinkAnswers :
            PipelineLink("pubmed", "pmc", from_step, res)
    \/ \E db \in Databases, cw \in CombineWith, res \in PipelineAnswers :
            PipelineCombine(db, cw, "AND", res)
    \/ PipelineOther
    \/ PipelineSummary
    \/ \E res \in FetchAnswers : PipelineFetch(res)

SpecPipeline == InitPipeline /\ [][NextPipeline]_vars

\* ------------------------------------- overlapping SessionManager calls

\* a call suspended at its `await self.client...`: the body that resumes it
\* (start_session also when add_search_step delegated to it), its arguments
\* and the client call made
Suspended(body, op, db, query, cw, cop, from_db, link_name, from_step, sent) ==
    [body |-> body, op |-> op, db |-> db, query |-> query,
     combine_with |-> cw, operator |-> cop,
     from_db |-> from_db, link_name |-> link_name, from_step |-> from_step,
     sent |-> sent]

\* task c suspends in the call p
Suspend(c, p) ==
    /\ pending' = [pending EXCEPT ![c] = p]
    /\ UNCHANGED <<sessionVars, otherVars, tool>>

\* start_session(db, query) up to its client call
CallStartSession(c, db, query) ==
    /\ pending[c] = NoPending
    /\ Suspend(c, Suspended("start_session", "start_session", db, query, None,
                            None, None, None, NoStep, SearchCall(db, query)))

\* add_search_step(...) up to its client call
CallAddSearchStep(c, db, query, combine_with, combine_operator) ==
    /\ pending[c] = NoPending
    /\ IF ~Truthy(web_env)
       THEN Suspend(c, Suspended("start_session", "add_search_step", db, query,
                                 None, None, None, None, NoStep,
                                 SearchCall(db, query)))
       ELSE Suspend(c, Suspended("add_search_step", "add_search_step", db, query,
                                 combine_with, combine_operator, None, None, NoStep,
                                 SearchCall(db, full_query(query, combine_with,
                                                           combine_operator))))

\* add_link_step(...) up to its client call, or to the guard that raises
CallAddLinkStep(c, from_db, to_db, link_name, from_step) ==
    /\ pending[c] = NoPending
    /\ IF LinkGuard(from_step) # ""
       THEN /\ Fail("add_link_step", from_step, LinkGuard(from_step), NoCall, NoAnswer)
            /\ UNCHANGED <<lastSupplied, otherVars, taskVars>>
       ELSE Suspend(c, Suspended("add_link_step", "add_link_step", to_db, None,
                                 None, None, from_db, link_name, from_step,
                                 LinkCall(from_db, to_db,
                                          SourceStep(from_step).query_key, web_env)))

\* the client answers res and task c runs its call to the end
Resume(c, res) ==
    LET p == pending[c] IN
    /\ p # NoPending
    /\ CASE p.body = "start_session" ->
                StartSessionBody(p.op, p.db, p.query, res)
         [] p.body = "add_search_step" ->
                SearchStepBody(p.db, p.query, p.combine_with, p.operator, p.sent, res)
         [] p.body = "add_link_step" ->
                LinkStepBody(p.from_db, p.db, p.link_name, p.from_step, p.sent, res)
    /\ pending' = [pending EXCEPT ![c] = NoPending]
    /\ UNCHANGED <<otherVars, tool>>

\* what the client may answer to the call task c is suspended in
OverlapAnswers(c) ==
    IF pending[c] # NoPending /\ pending[c].sent.fn = "link"
    THEN LinkAnswers
    ELSE {ClientRaises,
          [kind |-> "result", web_env |-> "W1", query_key |-> "1", count |-> 7]}

\* one SessionManager shared by tasks whose calls overlap
NextOverlap ==
    \/ \E c \in Callers, db \in Databases, query \in Queries :
            CallStartSession(c, db, query)
    \/ \E c \in Callers, db \in Databases, query \in Queries :
            CallAddSearchStep(c, db, query, None, "AND")
    \/ \E c \in Callers :
            CallAddLinkStep(c, "pubmed", "pmc", None, NoStep)
    \/ \E c \in Callers : \E res \in OverlapAnswers(c) : Resume(c, res)
    \/ SessionStep(reset)

SpecOverlap == InitSession /\ [][NextOverlap]_vars

\* ------------------------------------------------- claims on the limiter

\* the first k recorded acquire() calls were all issued at creation time
BackToBack(k) == Len(hist) >= k /\ \A i \in 1..k : hist[i].start = 0

\* C1 (as claimed): with capacity C and window W and no update_limit, the
\* acquire() calls returning within any interval of length T number at most
\* C + T*C/W; over the recorded returns i..j: (j-i+1) <= C + (t_j - t_i)*C/W.
C1_RateCeiling ==
    \A i, j \in 1..Len(hist) :
        i <= j =>
            (j - i + 1) * TicksPerWindow
                <= max_requests * TicksPerWindow + (hist[j].t - hist[i].t) * max_requests

\* C2 (as claimed): on a fresh limiter of capacity C the first C back-to-back
\* acquire() calls return without suspending, the (C+1)-th suspends for W/C,
\* and the available amount right after the (C+1)-th acquire is 0.
C2_TokenConservation ==
    /\ \A k \in 1..max_requests :
          BackToBack(k) => hist[k].num = 0 /\ hist[k].t = 0
    /\ BackToBack(max_requests + 1) =>
          hist[max_requests + 1].num * max_requests = hist[max_requests + 1].den
    /\ ( /\ BackToBack(max_requests + 1)
         /\ Len(hist) = max_requests + 1
         /\ lockHolder = NoCaller
         /\ now = hist[max_requests + 1].t ) => available_tokens = 0

\* C3: right after the refill step of every acquire() the bucket holds between
\* 0 and max_requests tokens, whatever update_limit calls and elapsed times came
\* before, and the stored amount is never negative.
C3_BucketBounds ==
    /\ 0 <= refillSnap.tok
    /\ refillSnap.tok <= refillSnap.max * Unit
    /\ tokens >= 0

\* update_limit had narrowed the capacity below the stored amount; the refill
\* of a later acquire() clamped it to the new capacity and one unit was taken
C3_Witness ==
    /\ last_update > 0
    /\ refillSnap.before > refillSnap.max * Unit
    /\ refillSnap.tok = refillSnap.max * Unit
    /\ tokens = refillSnap.tok - Unit

\* C4: at most one acquire() is inside the critical section (suspended in its
\* wait included); it holds the lock, and while it stays there no other caller
\* changes tokens or last_update.
C4_MutualExclusion ==
    /\ [](\A c, d \in Callers : pc[c] = "sleeping" /\ pc[d] = "sleeping" => c = d)
    /\ [](\A c \in Callers : pc[c] = "sleeping" => lockHolder = c)
    /\ [][\A c \in Callers :
            (pc[c] = "sleeping" /\ pc'[c] = "sleeping")
                => tokens' = tokens /\ last_update' = last_update]_vars

\* one caller is suspended inside the critical section while another has
\* called acquire() and is kept waiting for the lock
C4_Witness ==
    \E c, d \in Callers : pc[c] = "sleeping" /\ pc[d] = "waiting"

\* ------------------------------------------------ claims on _request

\* two durations <<num, den>> are the same number
SameDuration(a, b) == a.num * b.den = b.num * a.den

\* the latest outcome was a response with a 4xx status other than 429
ClientErrorResponse ==
    /\ lastResp.kind = "response"
    /\ 400 <= lastResp.status /\ lastResp.status <= 499
    /\ lastResp.status # 429

\* the latest outcome was a response with status 429
RateLimitResponse == lastResp.kind = "response" /\ lastResp.status = 429

\* C5: with max_retries = N >= 0 and a transport that only returns statuses
\* >= 500, _request issues exactly N+1 HTTP calls (never more), completes a
\* wait before each call after the first, and ends by raising
\* ServiceUnavailableError with retry_after = 60.
C5_RetryTermination ==
    allServerErr =>
        /\ httpCalls <= retry_handler.max_retries + 1
        /\ pc[Requester] = "http" => Len(waits) = httpCalls - 1
        /\ \A k \in 1..Len(waits) :
              waits[k].num > 0 /\ SameDuration(waits[k], get_delay(retry_handler, k - 1))
        /\ pc[Requester] = "done" =>
            /\ httpCalls = retry_handler.max_retries + 1
            /\ Len(waits) = retry_handler.max_retries
            /\ result.outcome = "raised"
            /\ result.value.error = "ServiceUnavailableError"
            /\ result.value.retry_after = 60

\* three calls all answered with a status >= 500, two waits, then the raise
C5_Witness ==
    /\ pc[Requester] = "done"
    /\ allServerErr
    /\ retry_handler.max_retries = 2
    /\ httpCalls = 3
    /\ Len(waits) = 2
    /\ result.outcome = "raised"

\* C6: every HTTP call of _request, first attempt and retries alike, follows
\* an acquire() of its own that has returned: the acquires that returned equal
\* the HTTP calls issued plus the one about to be issued, and the acquires made
\* equal those returned plus the one still suspended.
C6_OneAcquirePerAttempt ==
    /\ acqDone = httpCalls + (IF pc[Requester] = "acquired" THEN 1 ELSE 0)
    /\ acqCalls = acqDone + (IF pc[Requester] \in {"waiting", "sleeping"} THEN 1 ELSE 0)

\* a retry whose own acquire() has returned is about to issue the third call
C6_Witness ==
    /\ pc[Requester] = "acquired"
    /\ attempt = 2
    /\ httpCalls = 2
    /\ acqDone = 3

\* C7: on a response with status 400..499 other than 429, _request fails on
\* that attempt: no retry wait is started and no further HTTP call follows
\* (one call in all when it is the first response).
C7_NoRetryOnClientError ==
    ClientErrorResponse =>
        /\ pc[Requester] = "done"
        /\ result.outcome = "raised"
        /\ sleep[Requester] = NoSleep
        /\ httpCalls = attempt + 1
        /\ Len(waits) = attempt
        /\ acqCalls = httpCalls

\* a 404 as the first response: failed after one call
C7_Witness ==
    /\ ClientErrorResponse
    /\ lastResp.status = 404
    /\ pc[Requester] = "done"
    /\ result.outcome = "raised"
    /\ httpCalls = 1

\* C8 (as claimed): a 4xx other than 429 raises the error its status selects,
\* 400 InvalidQueryError, 404 ArticleNotFoundError, 401 the authentication
\* error, any other the generic PubMedError, each carrying the response body
\* cut to at most 500 characters.
C8_ClientErrorClassification ==
    (ClientErrorResponse /\ pc[Requester] = "done") =>
        /\ result.outcome = "raised"
        /\ result.value.error =
              CASE lastResp.status = 400 -> "InvalidQueryError"
                [] lastResp.status = 404 -> "ArticleNotFoundError"
                [] OTHER -> "PubMedError"
        /\ lastResp.status = 401 =>
              result.value.message = "Authentication error - check API key"
        /\ result.value.details = Min(lastResp.textLen, 500)

\* C9 (as claimed): the wait before the retry of a 429 is the server's
\* Retry-After hint when the response carries one, the backoff delay otherwise.
C9_RetryWaitHonoursHint ==
    (RateLimitResponse /\ pc[Requester] = "backoff") =>
        /\ lastResp.header.kind = "seconds" =>
              SameDuration(sleep[Requester], [num |-> lastResp.header.value, den |-> 1])
        /\ lastResp.header.kind = "absent" =>
              SameDuration(sleep[Requester], get_delay(retry_handler, attempt))

\* C9 (amended): when an attempt returns 429, retries remain and
\* retry_on_rate_limit is set, the wait before the next attempt is
\* delay(attempt) whether or not the response carries a Retry-After hint, and
\* the loop then goes on to the next attempt.
C9_RetryWaitIsBackoff ==
    /\ [](RateLimitResponse /\ pc[Requester] = "backoff" =>
            /\ retry_on_rate_limit
            /\ attempt < retry_handler.max_retries
            /\ SameDuration(sleep[Requester], get_delay(retry_handler, attempt)))
    /\ [][(RateLimitResponse /\ pc[Requester] = "backoff" /\ pc'[Requester] # "backoff") =>
            /\ pc'[Requester] = "loop"
            /\ attempt' = attempt + 1
            /\ httpCalls' = httpCalls]_vars

\* the second attempt got a 429 carrying Retry-After: 30 and is being waited out
C9_Witness ==
    /\ RateLimitResponse
    /\ lastResp.header.kind = "seconds"
    /\ pc[Requester] = "backoff"
    /\ attempt = 1

\* C10 (as claimed): a 429 on the last permitted attempt, or on any attempt
\* with retry_on_rate_limit off, raises RateLimitError and no other error, its
\* retry_after the server's Retry-After value when present and 60 otherwise.
C10_Terminal429 ==
    (RateLimitResponse /\ pc[Requester] = "done") =>
        /\ result.outcome = "raised"
        /\ result.value.error = "RateLimitError"
        /\ lastResp.header.kind = "seconds" =>
              result.value.retry_after = lastResp.header.value
        /\ lastResp.header.kind = "absent" => result.value.retry_after = 60

\* the latest attempt ended in a timeout or a connection-level failure
NetworkFailure == lastResp.kind \in {"timeout", "request_error"}

\* C11: an attempt that ends in a timeout or connection-level failure is
\* followed by a wait of delay(attempt) and the next attempt while
\* attempt < max_retries, never by a raise; on the last permitted attempt
\* (attempt = max_retries, the (max_retries+1)-th HTTP call) _request raises
\* NetworkError whose original_error is the description of the cause.
C11_NetworkFailure ==
    /\ [](NetworkFailure /\ pc[Requester] = "backoff" =>
            /\ attempt < retry_handler.max_retries
            /\ sleep[Requester].num > 0
            /\ SameDuration(sleep[Requester], get_delay(retry_handler, attempt)))
    /\ [](NetworkFailure /\ pc[Requester] = "done" =>
            /\ attempt = retry_handler.max_retries
            /\ httpCalls = retry_handler.max_retries + 1
            /\ Len(waits) = retry_handler.max_retries
            /\ result.outcome = "raised"
            /\ result.value.error = "NetworkError"
            /\ result.value.original_error = lastResp.cause
            /\ result.value.original_error \in {"ReadTimeout", "ConnectError"})
    /\ [][(pc[Requester] = "http" /\ pc'[Requester] # "http"
            /\ lastResp'.kind \in {"timeout", "request_error"}) =>
              IF attempt < retry_handler.max_retries
              THEN pc'[Requester] = "backoff" /\ result' = result
              ELSE pc'[Requester] = "done"]_vars
    /\ [][(NetworkFailure /\ pc[Requester] = "backoff" /\ pc'[Requester] # "backoff") =>
            /\ pc'[Requester] = "loop"
            /\ attempt' = attempt + 1
            /\ httpCalls' = httpCalls]_vars

\* three attempts, the last one timed out: NetworkError after two waits
C11_Witness ==
    /\ pc[Requester] = "done"
    /\ lastResp.kind = "timeout"
    /\ retry_handler.max_retries = 2
    /\ httpCalls = 3
    /\ Len(waits) = 2
    /\ result.value.error = "NetworkError"
    /\ result.value.original_error = "ReadTimeout"

\* the handler of the documented example: base_delay=1, backoff_factor=2,
\* max_delay=60
ExampleHandler ==
    /\ retry_handler.base_delay = 1
    /\ retry_handler.backoff_num = 2 /\ retry_handler.backoff_den = 1
    /\ retry_handler.max_delay = 60

\* C12 (as claimed): for every attempt >= 0, get_delay(attempt) returns
\* min(base_delay * backoff_factor^attempt, max_delay), never more than
\* max_delay; with base_delay=1, backoff_factor=2, max_delay=60 the delays of
\* attempts 0,1,2,3 are 1,2,4,8 and that of attempt 10 is 60.  Read on
\* wait(attempt), which sleeps for get_delay(attempt).
C12_BackoffSchedule ==
    /\ result.outcome # "raised"
    /\ pc[Requester] = "backoff" =>
          LET d == sleep[Requester]
              p == retry_handler.base_delay * Pow(retry_handler.backoff_num, attempt)
              q == Pow(retry_handler.backoff_den, attempt)
          IN  /\ d.num <= retry_handler.max_delay * d.den
              /\ IF p <= retry_handler.max_delay * q
                 THEN d.num * q = p * d.den
                 ELSE d.num = retry_handler.max_delay * d.den
              /\ ExampleHandler /\ attempt \in 0..3 => d.num = Pow(2, attempt) * d.den
              /\ ExampleHandler /\ attempt = 10 => d.num = 60 * d.den

\* ------------------------------------------- claims on the SessionManager

\* C13: in a SessionManager used sequentially, after any sequence of
\* operations, failing ones included, the k-th step of the list has
\* step_number k, the step counter equals the length of the list, and every
\* operation leaves the list as it is, appends one step at its end, or (reset)
\* empties it: steps stay in call order.
C13_StepNumbering ==
    /\ [](step_counter = Len(steps))
    /\ [](\A k \in 1..Len(steps) : steps[k].step_number = k)
    /\ [][\/ steps' = steps
          \/ /\ Len(steps') = Len(steps) + 1
             /\ SubSeq(steps', 1, Len(steps)) = steps
             /\ lastOp'.op \in {"start_session", "add_search_step", "add_link_step"}
          \/ lastOp'.op = "reset" /\ steps' = <<>>]_vars

\* a session started, a search step and a link step added: numbered 1, 2, 3
C13_Witness ==
    /\ Len(steps) = 3
    /\ steps[1].operation = "search" /\ steps[1].step_number = 1
    /\ steps[2].operation = "search" /\ steps[2].step_number = 2
    /\ steps[3].operation = "link" /\ steps[3].step_number = 3
    /\ lastOp.op = "add_link_step" /\ lastOp.outcome = "returned"

\* the two states of a session
Idle == web_env = None /\ steps = <<>>
Active == web_env # None /\ Len(steps) >= 1

\* C14 (as claimed): after any sequence of operations, failing ones included,
\* the session is Idle (web_env null, no steps) or Active (web_env non-null,
\* at least one step); a web_env without steps, or steps without a web_env, is
\* never reached.
C14_IdleOrActive == Idle \/ Active

\* C15: add_link_step or fetch_results called on a session without web_env
\* raises the 'no active session' error, calls none of the client's search,
\* link or fetch, and leaves web_env, the step list and the step counter as
\* they were.
C15_IdleGuard ==
    [][(web_env = None /\ lastOp'.op \in {"add_link_step", "fetch_results"}) =>
        /\ lastOp'.outcome = "raised"
        /\ lastOp'.error = (IF lastOp'.op = "add_link_step"
                            THEN "Cannot add link step: no active session"
                            ELSE "Cannot fetch: no active session")
        /\ lastOp'.sent = NoCall
        /\ web_env' = web_env
        /\ steps' = steps
        /\ step_counter' = step_counter]_vars

\* add_link_step was refused on a session that has no web_env
C15_Witness ==
    /\ web_env = None /\ steps = <<>> /\ step_counter = 0
    /\ lastOp.op = "add_link_step"
    /\ lastOp.outcome = "raised"
    /\ lastOp.error = "Cannot add link step: no active session"
    /\ lastOp.sent.fn = "none"

\* the operations that resolve a step, and the step number they were given
Resolving(op) == op.op \in {"add_link_step", "fetch_results"}

\* C16 (as claimed): on an Active session, a step number N given explicitly
\* to add_link_step (from_step) or fetch_results (step) that no recorded step
\* carries makes the call fail with 'step N not found' without a client call;
\* when N is recorded, the client is called with that step's query_key; the
\* most recently appended step is used only when no step number is given.
C16_StepResolution ==
    [][(Active /\ Resolving(lastOp')) =>
        IF lastOp'.arg = NoStep
        THEN lastOp'.sent.query_key = steps[Len(steps)].query_key
        ELSE IF FindStep(lastOp'.arg) = 0
        THEN /\ lastOp'.outcome = "raised"
             /\ lastOp'.error = "Step not found in pipeline"
             /\ lastOp'.sent = NoCall
        ELSE /\ lastOp'.sent.fn \in {"link", "fetch"}
             /\ lastOp'.sent.query_key = steps[FindStep(lastOp'.arg)].query_key]_vars

\* the latest operation called the client's search and got a result back
SearchAnswered(op) == op.sent.fn = "search" /\ op.got.kind = "result"

\* C17: start_session on an Idle session whose search returns both a web_env
\* and a query_key sets web_env to the returned handle and appends exactly one
\* step: step_number 1, operation 'search', the given database, the returned
\* query_key, the returned count as result_count; the session is then Active.
\* When the result lacks the web_env or the query_key it fails with the
\* session-start error and appends no step.
C17_StartSession ==
    [][(Idle /\ lastOp'.op = "start_session" /\ SearchAnswered(lastOp')) =>
        IF lastOp'.got.web_env # None /\ lastOp'.got.query_key # None
        THEN /\ lastOp'.outcome = "returned"
             /\ web_env' = lastOp'.got.web_env
             /\ Len(steps') = 1
             /\ steps'[1].step_number = 1
             /\ steps'[1].operation = "search"
             /\ steps'[1].database = lastOp'.sent.db
             /\ steps'[1].query_key = lastOp'.got.query_key
             /\ steps'[1].result_count = lastOp'.got.count
             /\ Active'
        ELSE /\ lastOp'.outcome = "raised"
             /\ lastOp'.error = "Failed to start session: no History data returned"
             /\ steps' = steps
             /\ step_counter' = step_counter]_vars

\* a session just started from Idle: one search step, web_env set
C17_Witness ==
    /\ lastOp.op = "start_session" /\ lastOp.outcome = "returned"
    /\ web_env = "W1"
    /\ Len(steps) = 1
    /\ steps[1].query_key = "1" /\ steps[1].result_count = 7
    /\ steps[1].database = "pubmed"

\* C18 (as claimed): reset() leaves web_env null, the step list empty and the
\* step counter 0 from any state (so a second reset changes nothing), and the
\* first start_session to succeed after a reset produces the step numbered 1.
C18_Reset ==
    /\ [][lastOp'.op = "reset" =>
            web_env' = None /\ steps' = <<>> /\ step_counter' = 0]_vars
    /\ [](lastOp.op = "reset" => web_env = None /\ steps = <<>> /\ step_counter = 0)
    /\ [][(afterReset /\ ~afterReset') =>
            steps'[Len(steps')].step_number = 1]_vars

\* C19: add_search_step on a session that has a web_env sends the search
\* '#K OP (query)' when combine_with = K and operator OP are given and the
\* query itself when combine_with is not given; the step it records stores
\* the caller's query, not the synthesized one.
C19_CombinedQuery ==
    [][(web_env # None /\ lastOp'.op = "add_search_step") =>
        /\ lastOp'.sent.fn = "search"
        /\ lastOp'.outcome = "returned" =>
            LET p == steps'[Len(steps')].parameters IN
            /\ p.query \in Queries
            /\ lastOp'.sent.query =
                  IF p.combined_with # None
                  THEN "#" \o p.combined_with \o " " \o p.operator
                           \o " (" \o p.query \o ")"
                  ELSE p.query]_vars

\* a second search combined with query key 1 by NOT
C19_Witness ==
    /\ lastOp.op = "add_search_step" /\ lastOp.outcome = "returned"
    /\ Len(steps) = 2
    /\ lastOp.sent.query = "#1 NOT (asthma)"
    /\ steps[2].parameters.query = "asthma"
    /\ steps[2].parameters.combined_with = "1"

\* C20: a successful add_search_step on an Active session leaves web_env
\* equal to the handle of its search result when the result carries one and
\* unchanged otherwise; add_search_step never turns a web_env into null; and
\* every link or fetch call passes the handle of the most recent search
\* result that carried one.
C20_MostRecentWebEnv ==
    /\ [][(Active /\ lastOp'.op = "add_search_step" /\ lastOp'.outcome = "returned") =>
            web_env' = (IF lastOp'.got.web_env # None
                        THEN lastOp'.got.web_env ELSE web_env)]_vars
    /\ [][(web_env # None /\ lastOp'.op = "add_search_step") => web_env' # None]_vars
    /\ [](lastOp.sent.fn \in {"link", "fetch"} =>
            lastSupplied # None /\ lastOp.sent.web_env = lastSupplied)

\* a search step whose result carried no handle: the session keeps the one it had
C20_Witness ==
    /\ lastOp.op = "add_search_step" /\ lastOp.outcome = "returned"
    /\ lastOp.got.web_env = None
    /\ web_env = "W2"
    /\ Len(steps) = 3


\* a step that belongs to no acquire() call: the clock advances or
\* update_limit runs
NoAcquireStep == Tick \/ \E n \in Capacities : update_limit(n)

\* C21: between two instants with no acquire() step between them the value
\* of available_tokens does not decrease, and it never exceeds the capacity.
C21_RefillMonotone ==
    /\ [][NoAcquireStep => available_tokens' >= available_tokens]_vars
    /\ [](available_tokens <= max_requests * Unit)


\* C22: a step that changes the capacity changes nothing else of the limiter
\* (stored tokens, last_update, lock holder, lock queue, callers' positions);
\* the stored amount above the capacity is clamped by the refill of the next
\* acquire(): every step that changes tokens leaves them within the capacity.
C22_UpdateLimitFrame ==
    /\ [][max_requests' # max_requests =>
            /\ tokens' = tokens /\ last_update' = last_update
            /\ lockHolder' = lockHolder /\ waiters' = waiters
            /\ pc' = pc /\ sleep' = sleep]_vars
    /\ [][tokens' # tokens => tokens' <= max_requests' * Unit]_vars
    /\ [](refillSnap.tok <= refillSnap.max * Unit)

\* after a narrowing the stored amount exceeds the new capacity
C22_Witness ==
    /\ tokens > max_requests * Unit
    /\ last_update = 0 /\ now > 0


\* C23: cancelling a caller asleep in acquire() leaves tokens and last_update
\* at the values they had when it suspended, records no completed call and
\* frees the lock without touching the lock's queue; the lock is never held
\* by a caller that is not asleep in acquire(); and every other caller that
\* is queued or asleep still gets out of acquire().
C23_AbandonedWait ==
    /\ [][\A c \in Callers : (pc[c] = "sleeping" /\ pc'[c] = "cancelled") =>
            /\ tokens' = tokens /\ tokens' = refillSnap.tok
            /\ last_update' = last_update /\ last_update' = sleep[c].start
            /\ lockHolder = c /\ lockHolder' = NoCaller
            /\ waiters' = waiters /\ hist' = hist]_vars
    /\ [](lockHolder # NoCaller => pc[lockHolder] = "sleeping")
    /\ \A c \in Callers :
          (pc[c] \in {"waiting", "sleeping"}) ~> (pc[c] \in {"idle", "cancelled"})

\* one caller was cancelled in its sleep; the other has since taken the
\* lock and refilled the bucket
C23_Witness ==
    /\ pc[1] = "cancelled"
    /\ pc[2] = "sleeping" /\ lockHolder = 2
    /\ sleep[2].start = last_update
    /\ hist # <<>>


\* C24: when build_search_pipeline has ended with output_step not specified
\* and a positive final result count, its last session call was the fetch of
\* the last step recorded in the session.
C24_DefaultOutput ==
    (/\ tool.pc = "done" /\ tool.output_step = NoStep
     /\ steps # <<>> /\ steps[Len(steps)].result_count > 0) =>
        /\ lastOp.op = "fetch_results"
        /\ lastOp.sent = FetchCall(steps[Len(steps)].database,
                                   steps[Len(steps)].query_key, web_env)


\* the latest HTTP call was answered with a status below 400
SuccessResponse == lastResp.kind = "response" /\ lastResp.status < 400

\* C25: whatever the outcomes of the attempts, _request issues at most
\* max_retries + 1 HTTP calls and has ended, returning or raising, once the
\* last of them is answered; a response with a status below 400 at attempt k
\* ends the request after exactly k + 1 calls with that very response as the
\* value returned, k waits in all and one acquire() per call.
C25_BoundedAttempts ==
    /\ httpCalls <= retry_handler.max_retries + 1
    /\ (httpCalls = retry_handler.max_retries + 1 /\ pc[Requester] # "http") =>
            pc[Requester] = "done"
    /\ pc[Requester] = "done" => result.outcome \in {"returned", "raised"}
    /\ SuccessResponse =>
        /\ pc[Requester] = "done"
        /\ result = [outcome |-> "returned", value |-> NoExc, response |-> lastResp]
        /\ httpCalls = attempt + 1
        /\ Len(waits) = attempt
        /\ acqCalls = httpCalls /\ acqDone = httpCalls

\* a timeout, then a 503, then a 200 at attempt 2: three calls and two waits
C25_Witness ==
    /\ SuccessResponse /\ lastResp.status = 200
    /\ attempt = 2 /\ httpCalls = 3 /\ Len(waits) = 2
    /\ ~allServerErr
    /\ result.outcome = "returned"


\* the latest attempt failed in a way the loop retries while retries remain
RetryableFailure ==
    \/ lastResp.kind \in {"timeout", "request_error"}
    \/ lastResp.kind = "response" /\ lastResp.status >= 500
    \/ lastResp.kind = "response" /\ lastResp.status = 429 /\ retry_on_rate_limit

\* _request raised the error that follows the loop
Exhausted ==
    /\ result.outcome = "raised"
    /\ result.value.message = "Max retries exceeded"

\* C26 (as claimed): a request that has used all its max_retries + 1
\* attempts, the last of which failed retryably as the others did, has
\* finished the loop without returning or raising inside it and fails with
\* the error 'Max retries exceeded'.
C26_ExhaustionPath ==
    (/\ pc[Requester] = "done"
     /\ httpCalls = retry_handler.max_retries + 1
     /\ RetryableFailure) => Exhausted

\* C26 (amended): for max_retries >= 0 no sequence of outcomes lets the loop
\* finish its iterations: no retry wait is begun at attempt = max_retries,
\* the request ends inside an iteration on the outcome of an HTTP call, and
\* 'Max retries exceeded' is never raised.
C26_NoExhaustion ==
    /\ ~Exhausted
    /\ pc[Requester] = "backoff" => attempt < retry_handler.max_retries
    /\ pc[Requester] = "done" =>
        /\ lastResp.kind # "none"
        /\ attempt = httpCalls - 1
        /\ attempt <= retry_handler.max_retries

\* every attempt failed with a connection error; the last one raised
\* NetworkError from inside the loop
C26_Witness ==
    /\ pc[Requester] = "done"
    /\ lastResp.kind = "request_error"
    /\ retry_handler.max_retries = 2
    /\ httpCalls = 3 /\ attempt = 2
    /\ result.value.message = "Network request failed"


\* C27: under the event loop's fair scheduling every acquire() call that is
\* queued for the lock or asleep eventually returns to its caller, and each
\* return is recorded as a completed call that took a unit: the bucket holds
\* a whole unit less than the refill found, or nothing after a sleep.
C27_AcquireLiveness ==
    /\ \A c \in Callers : (pc[c] = "waiting") ~> (pc[c] = "idle")
    /\ \A c \in Callers : (pc[c] = "sleeping") ~> (pc[c] = "idle")
    /\ [][Len(hist') > Len(hist) =>
            \/ tokens' = refillSnap'.tok - Unit /\ refillSnap'.tok >= Unit
            \/ tokens' = 0 /\ refillSnap'.tok < Unit]_vars
    /\ [](\A c \in Callers : pc[c] \in {"idle", "waiting", "sleeping"})

\* a call that queued for the lock behind a sleeping caller has returned
\* after a sleep of its own
C27_Witness ==
    /\ Len(hist) = 3
    /\ pc = [c \in Callers |-> "idle"]
    /\ hist[3].t > hist[3].start
    /\ hist[2].t > hist[2].start
    /\ hist[3].start >= hist[2].t


\* C28: a start_session, add_search_step, add_link_step or fetch_results
\* call that raises leaves web_env, the step list and the step counter as
\* they were before the call.
C28_FailureLeavesState ==
    [][(/\ lastOp'.outcome = "raised"
        /\ lastOp'.op \in {"start_session", "add_search_step",
                           "add_link_step", "fetch_results"}) =>
            /\ web_env' = web_env
            /\ steps' = steps
            /\ step_counter' = step_counter]_vars

\* C29: every step of the step list has a query_key that is neither null
\* nor empty.
C29_UsableQueryKey ==
    \A k \in 1..Len(steps) : steps[k].query_key \notin {None, ""}


\* C30: whatever the overlap of start_session, add_search_step and
\* add_link_step calls and of reset, the k-th element of the step list has
\* step_number k, no two steps share a step_number, the counter equals the
\* length of the list, and the query_key of every link step is the decimal
\* form of its step_number.
C30_OverlapNumbering ==
    /\ step_counter = Len(steps)
    /\ \A k \in 1..Len(steps) : steps[k].step_number = k
    /\ \A j, k \in 1..Len(steps) :
          steps[j].step_number = steps[k].step_number => j = k
    /\ \A k \in 1..Len(steps) :
          steps[k].operation = "link" =>
              steps[k].query_key = ToString(steps[k].step_number)

\* all calls have completed; two links were suspended together on a list of
\* one step, a reset ran before they resumed, and each was recorded under its
\* own number
C30_Witness ==
    /\ \A c \in Callers : pending[c] = NoPending
    /\ Len(steps) = 2
    /\ steps[1].operation = "link" /\ steps[2].operation = "link"
    /\ steps[1].query_key = "1" /\ steps[2].query_key = "2"
    /\ web_env = None

====
